---------------------------- MODULE Spec2Model ----------------------------
(***************************************************************************)
(* Model of the vectorworks-tag GitHub action.                             *)
(*                                                                         *)
(* The repository holds three revisions of the same script:                *)
(*   "old" : src/index.js lines 1-227   (service packs, marker "sp")       *)
(*   "sp"  : src/index.js lines 228-455 (service packs, marker "sp")       *)
(*   "up"  : src/unnamed/part_001       (updates, marker "up")             *)
(* Definitions without a suffix model part_001; the suffix _sp marks the   *)
(* definitions of src/index.js lines 228-455 and the suffix _old those of  *)
(* src/index.js lines 1-227.                                               *)
(*                                                                         *)
(* A JavaScript string is a sequence of one-character strings.  A          *)
(* JavaScript number is a record [nan, v, e]: NaN, or the number v * 10^e. *)
(* An integer below 10^9 is held exactly, with e = 0.  A number from 10^9  *)
(* on keeps its nine leading digits in v, without closing zeros, where a   *)
(* double keeps about seventeen; the inputs of the model have no number    *)
(* from 10^9 on with more than nine digits other than 0.                   *)
(***************************************************************************)
EXTENDS Integers, Sequences, FiniteSets, TLC

VARIABLES
    rev,          \* the revision of the script that runs
    \* --- parser / formatter round trip (SpecParse)
    tag,          \* the tag text given to parseTag
    parsed,       \* parseTag(tag), or Unset
    formatted,    \* formatTag(parsed), or Unset
    reparsed,     \* parseTag(formatted), or Unset
    \* --- formatter (SpecFormat)
    latestTag,    \* the version given to getNewTag
    newTag,       \* getNewTag(latestTag), or Unset
    \* --- comparator (SpecCompare)
    cmpA, cmpB, cmpC,   \* three versions
    cmpAB, cmpBA, cmpBC, cmpAC,   \* the results of compareTags on them
    \* --- resolution pipeline (SpecResolve)
    tagNames,     \* the raw tag names of the repository
    config,       \* the parsed configuration file
    relevantTags, \* the result of getRelevantTags
    latest,       \* the result of getLatestTag
    resolved,     \* the outcome of the pipeline: a tag text or a thrown error
    \* --- the whole action (SpecRun)
    env,          \* process.env: which of GITHUB_REF, GITHUB_SHA are set
    configFile,   \* what getConfig returns: Null or a configuration
    repoSize,     \* the number of tags of the repository
    pc,           \* where the run is
    page,         \* the page getAllTags requests next / requested last
    fetchedTags,  \* the tags fetched so far
    requests,     \* the listTags requests made, in order
    runTag,       \* newTag of action(), once computed
    createRefs,   \* the createRef calls made, in order
    refCreated,   \* the refs createRef has created
    failures,     \* the core.setFailed calls, in order
    outputs,      \* the core.setOutput('tag', .) calls, in order
    faults        \* which remote calls have failed

vars == <<rev, tag, parsed, formatted, reparsed, latestTag, newTag,
          cmpA, cmpB, cmpC, cmpAB, cmpBA, cmpBC, cmpAC,
          tagNames, config, relevantTags, latest, resolved,
          env, configFile, repoSize, pc, page, fetchedTags, requests, runTag,
          createRefs, refCreated, failures, outputs, faults>>

parseVars   == <<tag, parsed, formatted, reparsed>>
formatVars  == <<latestTag, newTag>>
compareVars == <<cmpA, cmpB, cmpC, cmpAB, cmpBA, cmpBC, cmpAC>>
resolveVars == <<tagNames, config, relevantTags, latest, resolved>>
runVars     == <<env, configFile, repoSize, pc, page, fetchedTags, requests,
                 runTag, createRefs, refCreated, failures, outputs, faults>>

-----------------------------------------------------------------------------
(* JavaScript values *)

Unset     == [unset |-> TRUE]          \* a variable the run has not assigned
Null      == [null |-> TRUE]           \* null
Undefined == [undefined |-> TRUE]      \* undefined
NaN       == [nan |-> TRUE, v |-> 0, e |-> 0]
Num(i)    == [nan |-> FALSE, v |-> i, e |-> 0]
Throw(e)  == [thrown |-> e]            \* an exception that propagates
IsThrown(x) == "thrown" \in DOMAIN x

Abs(i) == IF i < 0 THEN 0 - i ELSE i

RECURSIVE Pow10(_)
Pow10(n) == IF n = 0 THEN 1 ELSE 10 * Pow10(n - 1)

\* the number of decimal digits of i > 0
RECURSIVE NDigits(_)
NDigits(i) == IF i < 10 THEN 1 ELSE 1 + NDigits(i \div 10)

\* the digits a number keeps
Precision == 9

\* the number v * 10^e in the form the model keeps
RECURSIVE Norm(_, _)
Norm(v, e) ==
    IF v = 0 THEN [nan |-> FALSE, v |-> 0, e |-> 0]
    ELSE IF v < 0 THEN [nan |-> FALSE, v |-> 0 - Norm(0 - v, e).v, e |-> Norm(0 - v, e).e]
    ELSE IF NDigits(v) > Precision THEN Norm(v \div 10, e + 1)
    ELSE IF e > 0 /\ NDigits(v) + e <= Precision THEN Norm(v * 10, e - 1)
    ELSE IF e > 0 /\ v % 10 = 0 THEN Norm(v \div 10, e + 1)
    ELSE [nan |-> FALSE, v |-> v, e |-> e]

\* where a number stands among the numbers: its sign times its length, then
\* its digits
Rank(a)   == IF a.v = 0 THEN 0
             ELSE IF a.v < 0 THEN 0 - (NDigits(0 - a.v) + a.e)
             ELSE NDigits(a.v) + a.e
Scaled(a) == IF a.v = 0 THEN 0 ELSE a.v * Pow10(Precision - NDigits(Abs(a.v)))
Below(a, b) == Rank(a) < Rank(b) \/ (Rank(a) = Rank(b) /\ Scaled(a) < Scaled(b))

\* a === b, a < b, a > b, a + b, a - b on numbers
StrictEq(a, b) == ~a.nan /\ ~b.nan /\ a.v = b.v /\ a.e = b.e
Lt(a, b)       == ~a.nan /\ ~b.nan /\ Below(a, b)
Gt(a, b)       == ~a.nan /\ ~b.nan /\ Below(b, a)
Negate(a)      == [nan |-> a.nan, v |-> 0 - a.v, e |-> a.e]
\* hi + lo, where hi.e >= lo.e
AddAligned(hi, lo) ==
    IF hi.v = 0 THEN lo
    ELSE IF NDigits(Abs(hi.v)) + (hi.e - lo.e) <= Precision
    THEN Norm(hi.v * Pow10(hi.e - lo.e) + lo.v, lo.e)
    ELSE hi              \* lo is below the digits the sum keeps
Plus(a, b)     ==
    IF a.nan \/ b.nan THEN NaN
    ELSE AddAligned(IF a.e >= b.e THEN a ELSE b, IF a.e >= b.e THEN b ELSE a)
Minus(a, b)    == Plus(a, Negate(b))

Dot == "."

Digits == <<"0", "1", "2", "3", "4", "5", "6", "7", "8", "9">>

DigitValue(c) ==
    CASE c = "0" -> 0 [] c = "1" -> 1 [] c = "2" -> 2 [] c = "3" -> 3
      [] c = "4" -> 4 [] c = "5" -> 5 [] c = "6" -> 6 [] c = "7" -> 7
      [] c = "8" -> 8 [] c = "9" -> 9
      [] c \in {"a", "A"} -> 10 [] c \in {"b", "B"} -> 11
      [] c \in {"c", "C"} -> 12 [] c \in {"d", "D"} -> 13
      [] c \in {"e", "E"} -> 14 [] c \in {"f", "F"} -> 15
      [] OTHER -> 99

\* String.prototype.startsWith
StartsWith(s, prefix) ==
    Len(s) >= Len(prefix) /\ SubSeq(s, 1, Len(prefix)) = prefix

\* String.prototype.substr(start, length), start >= 0
Substr(s, start, length) ==
    LET end == IF start + length < Len(s) THEN start + length ELSE Len(s)
    IN  SubSeq(s, start + 1, end)

\* String.prototype.split with a one-character separator
RECURSIVE split(_, _)
split(s, sep) ==
    IF \E i \in 1..Len(s) : s[i] = sep
    THEN LET i == CHOOSE k \in 1..Len(s) :
                      s[k] = sep /\ \A j \in 1..(k - 1) : s[j] # sep
         IN  <<SubSeq(s, 1, i - 1)>> \o split(SubSeq(s, i + 1, Len(s)), sep)
    ELSE <<s>>

\* parseInt(string) with no radix: leading white space is skipped, a sign is
\* read, "0x" selects radix 16, the longest prefix of digits is the value
\* and no digit at all gives NaN
RECURSIVE trimStart(_)
trimStart(t) == IF Len(t) > 0 /\ t[1] = " " THEN trimStart(Tail(t)) ELSE t

\* the value of the digits of w from the i-th on, after the digits of acc;
\* a digit after the digits a number keeps only makes the number longer
RECURSIVE digitsValue(_, _, _, _)
digitsValue(w, R, i, acc) ==
    IF i <= Len(w) /\ DigitValue(w[i]) < R
    THEN digitsValue(w, R, i + 1,
                     IF acc.e = 0 /\ acc.v < Pow10(Precision - 1)
                     THEN Norm(acc.v * R + DigitValue(w[i]), 0)
                     ELSE IF R = 10 THEN Norm(acc.v, acc.e + 1)
                     ELSE Norm((acc.v \div 100) * R, acc.e + 2))
    ELSE acc

parseIntDigits(w, R, neg) ==
    IF Len(w) = 0 \/ DigitValue(w[1]) >= R THEN NaN
    ELSE IF neg THEN Negate(digitsValue(w, R, 1, Num(0)))
    ELSE digitsValue(w, R, 1, Num(0))

IsHex(u) == Len(u) >= 2 /\ u[1] = "0" /\ u[2] \in {"x", "X"}

parseIntRadix(u, neg) ==
    parseIntDigits(IF IsHex(u) THEN SubSeq(u, 3, Len(u)) ELSE u,
                   IF IsHex(u) THEN 16 ELSE 10, neg)

IsSigned(t) == Len(t) > 0 /\ t[1] \in {"+", "-"}

parseIntSign(t) ==
    parseIntRadix(IF IsSigned(t) THEN Tail(t) ELSE t, IsSigned(t) /\ t[1] = "-")

parseInt(s) == parseIntSign(trimStart(s))

\* `${n}` for a number n
RECURSIVE NatToString(_)
NatToString(n) ==
    IF n < 10 THEN <<Digits[n + 1]>>
    ELSE NatToString(n \div 10) \o <<Digits[(n % 10) + 1]>>

\* a number of more than MaxFixedDigits digits is written with an exponent
MaxFixedDigits == 21

Zeros(n) == [i \in 1..n |-> "0"]

PositiveToString(v, e) ==
    IF NDigits(v) + e <= MaxFixedDigits THEN NatToString(v) \o Zeros(e)
    ELSE (IF v < 10 THEN NatToString(v)
          ELSE <<Head(NatToString(v)), Dot>> \o Tail(NatToString(v)))
         \o <<"e", "+">> \o NatToString(NDigits(v) + e - 1)

NumberToString(x) ==
    IF x.nan THEN <<"N", "a", "N">>
    ELSE IF x.v = 0 THEN <<"0">>
    ELSE IF x.v < 0 THEN <<"-">> \o PositiveToString(0 - x.v, x.e)
    ELSE PositiveToString(x.v, x.e)

\* F(v), with v evaluated once
Once(v, F(_)) == CHOOSE r \in {F(w) : w \in {v}} : TRUE

\* Array.prototype.sort(cmp): a stable insertion sort, as the engine runs
\* on short arrays; a comparator result of NaN counts as 0
ArraySort(arr, cmp(_, _)) ==
    LET Greater(a, b) == Once(cmp(a, b), LAMBDA c : ~c.nan /\ c.v > 0)
        RECURSIVE insert(_, _)
        insert(sorted, x) ==
            Once(sorted, LAMBDA s :
                IF s = <<>> \/ ~Greater(s[Len(s)], x)
                THEN Append(s, x)
                ELSE Append(insert(SubSeq(s, 1, Len(s) - 1), x), s[Len(s)]))
        RECURSIVE go(_, _, _)
        go(a, sorted, i) ==
            IF i > Len(a) THEN sorted ELSE go(a, insert(sorted, a[i]), i + 1)
    IN  Once(arr, LAMBDA a : go(a, <<>>, 1))

\* Array.prototype.filter
ArrayFilter(arr, keep(_)) == SelectSeq(arr, keep)

-----------------------------------------------------------------------------
(* Text constants *)

Prefix_v == <<"v">>
Mark_sp  == <<"s", "p">>
Mark_up  == <<"u", "p">>

-----------------------------------------------------------------------------
(* src/index.js lines 228-455: the service-pack revision *)

parseServicePack(sp) ==
    IF ~StartsWith(sp, Mark_sp) THEN Null
    ELSE LET parts == split(sp, Dot)
             maj   == parseInt(Substr(parts[1], 2, Len(parts[1]) - 1))
             min   == IF Len(parts) = 1 THEN Num(0) ELSE parseInt(parts[2])
         IN  [maj |-> maj, min |-> min]

parseTag_sp(t) ==
    IF Len(t) = 0 THEN Null
    ELSE IF ~StartsWith(t, Prefix_v) THEN Null
    ELSE LET parts == split(t, Dot) IN
    IF Len(parts) # 3 /\ Len(parts) # 4 THEN Null
    ELSE LET year == parseInt(Substr(parts[1], 1, Len(parts[1]) - 1)) IN
    IF Lt(year, Num(2000)) \/ Gt(year, Num(3000)) THEN Null
    ELSE LET sp == parseServicePack(IF Len(parts) = 3 THEN parts[2]
                                    ELSE parts[2] \o <<Dot>> \o parts[3]) IN
    IF sp = Null THEN Null
    ELSE LET count == parseInt(parts[Len(parts)]) IN
    IF Lt(count, Num(0)) THEN Null
    ELSE [year |-> year, sp |-> sp, count |-> count]

compareTags_sp(a, b) ==
    IF ~StrictEq(a.year, b.year) THEN Minus(a.year, b.year)
    ELSE IF ~StrictEq(a.sp.maj, b.sp.maj) THEN Minus(a.sp.maj, b.sp.maj)
    ELSE IF ~StrictEq(a.sp.min, b.sp.min) THEN Minus(a.sp.min, b.sp.min)
    ELSE IF ~StrictEq(a.count, b.count) THEN Minus(a.count, b.count)
    ELSE Num(0)

formatTag_sp(t) ==
    LET sp == IF StrictEq(t.sp.min, Num(0))
              THEN Mark_sp \o NumberToString(t.sp.maj)
              ELSE Mark_sp \o NumberToString(t.sp.maj) \o <<Dot>>
                           \o NumberToString(t.sp.min)
    IN  Prefix_v \o NumberToString(t.year) \o <<Dot>> \o sp \o <<Dot>>
                 \o NumberToString(t.count)

getRelevantTagsOf_sp(sp, year, tagData) ==
    LET tags      == [i \in DOMAIN tagData |-> parseTag_sp(tagData[i].name)]
        validTags == ArraySort(ArrayFilter(tags, LAMBDA t : t # Null), compareTags_sp)
    IN  ArrayFilter(validTags,
                    LAMBDA t : /\ StrictEq(t.year, parseInt(NumberToString(year)))
                               /\ StrictEq(t.sp.maj, sp.maj)
                               /\ StrictEq(t.sp.min, sp.min))

\* servicePack is Undefined when the configuration has no field
\* "servicePack": sp.startsWith then throws a TypeError
getRelevantTags_sp(year, servicePack, tagData) ==
    IF servicePack = Undefined THEN Throw("TypeError")
    ELSE LET sp == parseServicePack(servicePack.str) IN
    IF sp = Null THEN [arr |-> <<>>]
    ELSE [arr |-> getRelevantTagsOf_sp(sp, year, tagData)]

getLatestTag_sp(sortedTags, year, servicePack) ==
    IF Len(sortedTags) = 0
    THEN LET parsedSp == parseServicePack(servicePack.str)
             sp == IF parsedSp = Null THEN [maj |-> Num(0), min |-> Num(0)]
                   ELSE parsedSp
         IN  [year |-> year, sp |-> sp, count |-> Num(-1)]
    ELSE sortedTags[Len(sortedTags)]

getNewTag_sp(latestTag_) ==
    formatTag_sp([year  |-> latestTag_.year,
                  sp    |-> latestTag_.sp,
                  count |-> Plus(latestTag_.count, Num(1))])

-----------------------------------------------------------------------------
(* src/index.js lines 1-227: the first service-pack revision.             *)
(* parseServicePack, parseTag and compareTags are those of lines 228-455. *)

\* parseTag is given an entry of the listing, an object, not its name:
\* entry.length is undefined, entry.startsWith is not a function, the
\* TypeError is caught and null returned
parseTag_old(entry) ==
    IF "name" \in DOMAIN entry THEN Null ELSE parseTag_sp(entry.str)

\* the filter runs over tags, which still holds the null entries:
\* tag.year of null throws a TypeError
getRelevantTagsOf_old(sp, year, tagStrings) ==
    LET tags      == [i \in DOMAIN tagStrings |-> parseTag_old(tagStrings[i])]
        validTags == ArraySort(ArrayFilter(tags, LAMBDA t : t # Null), compareTags_sp)
    IN  IF \E i \in DOMAIN tags : tags[i] = Null
        THEN Throw("TypeError")
        ELSE [arr |-> ArrayFilter(tags,
                          LAMBDA t : /\ StrictEq(t.year, year)
                                     /\ StrictEq(t.sp.maj, sp.maj)
                                     /\ StrictEq(t.sp.min, sp.min))]

getRelevantTags_old(year, servicePack, tagStrings) ==
    IF servicePack = Undefined THEN Throw("TypeError")
    ELSE LET sp == parseServicePack(servicePack.str) IN
    IF sp = Null THEN [arr |-> <<>>]
    ELSE getRelevantTagsOf_old(sp, year, tagStrings)

getLatestTag_old(sortedTags, year, servicePack) ==
    IF Len(sortedTags) = 0
    THEN LET parsedSp == parseServicePack(servicePack.str)
             sp == IF parsedSp = Null THEN [maj |-> Num(0), min |-> Num(0)]
                   ELSE parsedSp
         IN  [year |-> year, sp |-> sp, count |-> Num(-1)]
    ELSE sortedTags[1]

getNewTag_old(latestTag_) ==
    LET sp == IF StrictEq(latestTag_.sp.min, Num(0))
              THEN NumberToString(latestTag_.sp.maj)
              ELSE NumberToString(latestTag_.sp.maj) \o <<Dot>>
                       \o NumberToString(latestTag_.sp.min)
    IN  Prefix_v \o NumberToString(latestTag_.year) \o <<Dot>> \o sp \o <<Dot>>
                 \o NumberToString(Plus(latestTag_.count, Num(1)))

-----------------------------------------------------------------------------
(* src/unnamed/part_001: the update revision *)

parseUpdate(up) ==
    IF ~StartsWith(up, Mark_up) THEN Null
    ELSE LET parts == split(up, Dot)
             maj   == parseInt(Substr(parts[1], 2, Len(parts[1]) - 1))
             min   == IF Len(parts) = 1 THEN Num(0) ELSE parseInt(parts[2])
         IN  [maj |-> maj, min |-> min]

\* tag.uplit("."): a string has no method uplit, the call throws a TypeError
uplit(s, sep) == Throw("TypeError")

parseTag(t) ==
    IF Len(t) = 0 THEN Null
    ELSE IF ~StartsWith(t, Prefix_v) THEN Null
    ELSE LET parts == uplit(t, Dot) IN
    IF IsThrown(parts) THEN Null          \* catch (error) { return null; }
    ELSE IF Len(parts) # 3 /\ Len(parts) # 4 THEN Null
    ELSE LET year == parseInt(Substr(parts[1], 1, Len(parts[1]) - 1)) IN
    IF Lt(year, Num(2000)) \/ Gt(year, Num(3000)) THEN Null
    ELSE LET up == parseUpdate(IF Len(parts) = 3 THEN parts[2]
                               ELSE parts[2] \o <<Dot>> \o parts[3]) IN
    IF up = Null THEN Null
    ELSE LET count == parseInt(parts[Len(parts)]) IN
    IF Lt(count, Num(0)) THEN Null
    ELSE [year |-> year, up |-> up, count |-> count]

\* mutant: the minor numbers are not compared
compareTags_noMinor(a, b) ==
    IF ~StrictEq(a.year, b.year) THEN Minus(a.year, b.year)
    ELSE IF ~StrictEq(a.up.maj, b.up.maj) THEN Minus(a.up.maj, b.up.maj)
    ELSE IF ~StrictEq(a.count, b.count) THEN Minus(a.count, b.count)
    ELSE Num(0)

compareTags(a, b) ==
    IF ~StrictEq(a.year, b.year) THEN Minus(a.year, b.year)
    ELSE IF ~StrictEq(a.up.maj, b.up.maj) THEN Minus(a.up.maj, b.up.maj)
    ELSE IF ~StrictEq(a.up.min, b.up.min) THEN Minus(a.up.min, b.up.min)
    ELSE IF ~StrictEq(a.count, b.count) THEN Minus(a.count, b.count)
    ELSE Num(0)

formatTag(t) ==
    LET up == Mark_up \o NumberToString(t.up.maj) \o <<Dot>>
                      \o NumberToString(t.up.min)
    IN  Prefix_v \o NumberToString(t.year) \o <<Dot>> \o up \o <<Dot>>
                 \o NumberToString(t.count)

getRelevantTagsOf(up, year, tagData) ==
    LET tags      == [i \in DOMAIN tagData |-> parseTag(tagData[i].name)]
        validTags == ArraySort(ArrayFilter(tags, LAMBDA t : t # Null), compareTags)
    IN  ArrayFilter(validTags,
                    LAMBDA t : /\ StrictEq(t.year, parseInt(NumberToString(year)))
                               /\ StrictEq(t.up.maj, up.maj)
                               /\ StrictEq(t.up.min, up.min))

\* update is Undefined when the configuration has no field "update":
\* up.startsWith then throws a TypeError out of parseUpdate
getRelevantTags(year, update, tagData) ==
    IF update = Undefined THEN Throw("TypeError")
    ELSE LET up == parseUpdate(update.str) IN
    IF up = Null THEN [arr |-> <<>>]
    ELSE [arr |-> getRelevantTagsOf(up, year, tagData)]

getLatestTag(sortedTags, year, update) ==
    IF Len(sortedTags) = 0
    THEN LET parsedUp == parseUpdate(update.str)
             up == IF parsedUp = Null THEN [maj |-> Num(0), min |-> Num(0)]
                   ELSE parsedUp
         IN  [year |-> year, up |-> up, count |-> Num(-1)]
    ELSE sortedTags[Len(sortedTags)]

getNewTag(latestTag_) ==
    formatTag([year  |-> latestTag_.year,
               up    |-> latestTag_.up,
               count |-> Plus(latestTag_.count, Num(1))])

-----------------------------------------------------------------------------
(* Dispatch on the revision *)

Revisions == {"old", "sp", "up"}

Marker(r)       == IF r = "up" THEN Mark_up ELSE Mark_sp
UpdateOf(r, t)  == IF r = "up" THEN t.up ELSE t.sp
Version(r, year, upd, count) ==
    IF r = "up" THEN [year |-> year, up |-> upd, count |-> count]
    ELSE [year |-> year, sp |-> upd, count |-> count]

RevParseTag(r, t)   == IF r = "up" THEN parseTag(t) ELSE parseTag_sp(t)
RevFormatTag(r, t)  == IF r = "up" THEN formatTag(t) ELSE formatTag_sp(t)
RevParseUpdate(r, t) == IF r = "up" THEN parseUpdate(t) ELSE parseServicePack(t)
RevGetRelevantTags(r, year, update, tagData) ==
    IF r = "up" THEN getRelevantTags(year, update, tagData)
    ELSE IF r = "sp" THEN getRelevantTags_sp(year, update, tagData)
    ELSE getRelevantTags_old(year, update, tagData)
RevGetLatestTag(r, sortedTags, year, update) ==
    IF r = "up" THEN getLatestTag(sortedTags, year, update)
    ELSE IF r = "sp" THEN getLatestTag_sp(sortedTags, year, update)
    ELSE getLatestTag_old(sortedTags, year, update)
RevGetNewTag(r, t)  ==
    IF r = "up" THEN getNewTag(t)
    ELSE IF r = "sp" THEN getNewTag_sp(t) ELSE getNewTag_old(t)

-----------------------------------------------------------------------------
(* Bounds and inputs *)

MaxField    == 1      \* update major, update minor and counter range over 0..MaxField
MaxListLen  == 2      \* the longest list of raw tag names
MaxRepoTags == 201    \* the most tags a repository holds in a whole run

Years == {2024, 2025}

\* The segments tag texts are put together from
YearSegs == {
    <<"v", "2", "0", "2", "4">>,
    <<"v", "2", "0", "0", "0">>,
    <<"v", "3", "0", "0", "0">>,
    <<"v", "1", "9", "9", "9">>,
    <<"v", "3", "0", "0", "1">>,
    <<"v", "1", "9", "9", "9", "9">>,
    <<"v", "x">>,
    <<"2", "0", "2", "4">>,
    <<"v">> }

UpdateSegs == {
    <<"s", "p", "1">>,
    <<"s", "p", "0">>,
    <<"s", "p", "1", "2">>,
    <<"s", "p">>,
    <<"s", "p", "x">>,
    <<"s", "p", "-", "1">>,
    <<"s", "p", "1", "x">>,
    <<"u", "p", "1">>,
    <<"1">> }

MinorSegs == {
    <<"0">>,
    <<"2">>,
    <<"x">>,
    <<"-", "1">>,
    <<>> }

CountSegs == {
    <<"0">>,
    <<"7">>,
    <<"1", "0">>,
    <<"-", "1">>,
    <<"x">>,
    <<>>,
    <<" ", "3">>,
    <<"1">> \o Zeros(MaxFixedDigits) }

OtherTexts == {
    <<>>,
    <<"n", "o", "t", "-", "a", "-", "t", "a", "g">>,
    <<"v", "2", "0", "2", "4">>,
    <<"v", "2", "0", "2", "4", ".", "s", "p", "1">>,
    <<"v", "2", "0", "2", "4", ".", "s", "p", "1", ".", "0", ".", "1", ".", "2">> }

\* The raw tag names a repository holds
TagPool == {
    <<"v", "2", "0", "2", "4", ".", "s", "p", "1", ".", "0">>,
    <<"v", "2", "0", "2", "4", ".", "s", "p", "1", ".", "2">>,
    <<"v", "2", "0", "2", "4", ".", "s", "p", "1", ".", "1", "0">>,
    <<"v", "2", "0", "2", "4", ".", "s", "p", "2", ".", "1", ".", "0">>,
    <<"v", "2", "0", "2", "5", ".", "s", "p", "1", ".", "0">>,
    <<"n", "o", "t", "-", "a", "-", "t", "a", "g">>,
    <<"v", "2", "0", "2", "4", ".", "s", "p", "1", ".", "x">>,
    <<"v", "1", "9", "9", "9", "9", ".", "s", "p", "1", ".", "0">>,
    <<"v", "2", "0", "2", "4", ".", "u", "p", "1", ".", "0">>,
    <<"v", "2", "0", "2", "4", ".", "u", "p", "1", ".", "1">>,
    <<"v", "2", "0", "2", "1", ".", "s", "p">> }

\* The update texts a configuration holds
UpdateTexts == {
    <<"s", "p", "1">>,
    <<"s", "p", "2", ".", "1">>,
    <<"u", "p", "1">>,
    <<"u", "p", "2", ".", "1">> }

Configs ==
    {[year |-> Num(y), update |-> u] :
        y \in Years, u \in {[str |-> t] : t \in UpdateTexts} \cup {Undefined}}

TagLists == UNION {[1..n -> TagPool] : n \in 0..MaxListLen}

\* the entries listTags returns for tag names
TagData(names) == [i \in DOMAIN names |-> [name |-> names[i]]]

Join3(a, b, c)    == a \o <<Dot>> \o b \o <<Dot>> \o c
Join4(a, b, c, d) == a \o <<Dot>> \o b \o <<Dot>> \o c \o <<Dot>> \o d

TagTexts ==
    {Join3(a, b, c) : a \in YearSegs, b \in UpdateSegs, c \in CountSegs}
    \cup {Join4(y[1], y[2], c, d) : y \in YearSegs \X UpdateSegs,
                                    c \in MinorSegs, d \in CountSegs}
    \cup OtherTexts

Fields == 0..MaxField

IdleParse   == tag = <<>> /\ parsed = Unset /\ formatted = Unset /\ reparsed = Unset
IdleFormat  == latestTag = Unset /\ newTag = Unset
IdleCompare == /\ cmpA = Unset /\ cmpB = Unset /\ cmpC = Unset
               /\ cmpAB = Unset /\ cmpBA = Unset /\ cmpBC = Unset /\ cmpAC = Unset
IdleResolve == /\ tagNames = <<>> /\ config = Unset /\ relevantTags = Unset
               /\ latest = Unset /\ resolved = Unset
IdleRun     == /\ env = Unset /\ configFile = Unset /\ repoSize = 0 /\ pc = "idle"
               /\ page = 0 /\ fetchedTags = <<>> /\ requests = <<>>
               /\ runTag = Unset
               /\ createRefs = <<>> /\ refCreated = {} /\ failures = <<>>
               /\ outputs = <<>> /\ faults = {}

-----------------------------------------------------------------------------
(* SpecParse: parseTag, formatTag and parseTag again on one tag text *)

InitParse ==
    /\ rev \in {"sp", "up"}
    /\ tag \in TagTexts
    /\ parsed = Unset /\ formatted = Unset /\ reparsed = Unset
    /\ IdleFormat /\ IdleCompare /\ IdleResolve /\ IdleRun

ParseStep ==
    /\ parsed = Unset
    /\ parsed' = RevParseTag(rev, tag)
    /\ UNCHANGED <<rev, tag, formatted, reparsed>>
    /\ UNCHANGED <<formatVars, compareVars, resolveVars, runVars>>

FormatStep ==
    /\ parsed # Unset /\ parsed # Null /\ formatted = Unset
    /\ formatted' = [str |-> RevFormatTag(rev, parsed)]
    /\ UNCHANGED <<rev, tag, parsed, reparsed>>
    /\ UNCHANGED <<formatVars, compareVars, resolveVars, runVars>>

ReparseStep ==
    /\ formatted # Unset /\ reparsed = Unset
    /\ reparsed' = RevParseTag(rev, formatted.str)
    /\ UNCHANGED <<rev, tag, parsed, formatted>>
    /\ UNCHANGED <<formatVars, compareVars, resolveVars, runVars>>

NextParse == ParseStep \/ FormatStep \/ ReparseStep

SpecParse == InitParse /\ [][NextParse]_vars

-----------------------------------------------------------------------------
(* SpecFormat: getNewTag on one latest version *)

LatestVersions(r) ==
    {Version(r, Num(y), [maj |-> Num(a), min |-> Num(b)], Num(c)) :
        y \in Years, a \in Fields, b \in Fields, c \in -1..MaxField}

InitFormat ==
    /\ rev \in Revisions
    /\ latestTag \in LatestVersions(rev)
    /\ newTag = Unset
    /\ IdleParse /\ IdleCompare /\ IdleResolve /\ IdleRun

GetNewTagStep ==
    /\ newTag = Unset
    /\ newTag' = [str |-> RevGetNewTag(rev, latestTag)]
    /\ UNCHANGED <<rev, latestTag>>
    /\ UNCHANGED <<parseVars, compareVars, resolveVars, runVars>>

NextFormat == GetNewTagStep

SpecFormat == InitFormat /\ [][NextFormat]_vars

-----------------------------------------------------------------------------
(* SpecCompare: compareTags on three versions *)

Versions ==
    {[year |-> Num(y), up |-> [maj |-> Num(a), min |-> Num(b)], count |-> Num(c)] :
        y \in Years, a \in Fields, b \in Fields, c \in Fields}

InitCompare ==
    /\ rev = "up"
    /\ cmpA \in Versions /\ cmpB \in Versions /\ cmpC \in Versions
    /\ cmpAB = Unset /\ cmpBA = Unset /\ cmpBC = Unset /\ cmpAC = Unset
    /\ IdleParse /\ IdleFormat /\ IdleResolve /\ IdleRun

CompareStep ==
    /\ cmpAB = Unset
    /\ cmpAB' = compareTags(cmpA, cmpB)
    /\ cmpBA' = compareTags(cmpB, cmpA)
    /\ cmpBC' = compareTags(cmpB, cmpC)
    /\ cmpAC' = compareTags(cmpA, cmpC)
    /\ UNCHANGED <<rev, cmpA, cmpB, cmpC>>
    /\ UNCHANGED <<parseVars, formatVars, resolveVars, runVars>>

NextCompare == CompareStep

SpecCompare == InitCompare /\ [][NextCompare]_vars

-----------------------------------------------------------------------------
(* SpecResolve: getRelevantTags, getLatestTag, getNewTag on a list of tag  *)
(* names and a configuration, as action() chains them                      *)

\* action(): tags, latestTag and newTag, or the error that escapes
Resolve(r, cfg, tagData) ==
    LET tags == RevGetRelevantTags(r, cfg.year, cfg.update, tagData) IN
    IF IsThrown(tags) THEN tags
    ELSE [str |-> RevGetNewTag(r, RevGetLatestTag(r, tags.arr, cfg.year, cfg.update))]

InitResolve ==
    /\ rev \in Revisions
    /\ tagNames \in TagLists
    /\ config \in Configs
    /\ relevantTags = Unset /\ latest = Unset /\ resolved = Unset
    /\ IdleParse /\ IdleFormat /\ IdleCompare /\ IdleRun

ResolveRelevant ==
    /\ relevantTags = Unset
    /\ relevantTags' = RevGetRelevantTags(rev, config.year, config.update,
                                          TagData(tagNames))
    /\ resolved' = IF IsThrown(relevantTags') THEN relevantTags' ELSE resolved
    /\ UNCHANGED <<rev, tagNames, config, latest>>
    /\ UNCHANGED <<parseVars, formatVars, compareVars, runVars>>

ResolveLatest ==
    /\ relevantTags # Unset /\ ~IsThrown(relevantTags) /\ latest = Unset
    /\ latest' = RevGetLatestTag(rev, relevantTags.arr, config.year, config.update)
    /\ UNCHANGED <<rev, tagNames, config, relevantTags, resolved>>
    /\ UNCHANGED <<parseVars, formatVars, compareVars, runVars>>

ResolveNewTag ==
    /\ latest # Unset /\ resolved = Unset
    /\ resolved' = [str |-> RevGetNewTag(rev, latest)]
    /\ UNCHANGED <<rev, tagNames, config, relevantTags, latest>>
    /\ UNCHANGED <<parseVars, formatVars, compareVars, runVars>>

NextResolve == ResolveRelevant \/ ResolveLatest \/ ResolveNewTag

SpecResolve == InitResolve /\ [][NextResolve]_vars

-----------------------------------------------------------------------------
(* SpecRun: run() from start to end.  Every awaited request settles in a   *)
(* step of its own, by resolving or by rejecting.                          *)

PageSize == 100       \* per_page

RefsTags == <<"r", "e", "f", "s", "/", "t", "a", "g", "s", "/">>

\* the repository's i-th tag, as listTags returns it: one tag in TagEvery is
\* a release tag, of the service pack 1 or of the update 1 in turn, and the
\* others are build tags
TagEvery == 25

RepoEntry(i) ==
    [name |-> IF i % TagEvery = 1
              THEN Prefix_v \o NatToString(2024) \o <<Dot>>
                       \o (IF (i \div TagEvery) % 2 = 0 THEN Mark_sp ELSE Mark_up)
                       \o <<"1">> \o <<Dot>> \o NatToString(i - 1)
              ELSE <<"b", "u", "i", "l", "d", "-">> \o NatToString(i)]

Repo(n) == [i \in 1..n |-> RepoEntry(i)]

\* octokit.rest.repos.listTags({per_page, page}).data on a repository of n tags
ListTagsData(n, perPage, pg) ==
    LET first == (pg - 1) * perPage
        size  == IF n - first >= perPage THEN perPage
                 ELSE IF n - first > 0 THEN n - first ELSE 0
    IN  [k \in 1..size |-> RepoEntry(first + k)]

RunConfigs ==
    {[year |-> Num(2024), update |-> u] :
        u \in {[str |-> Mark_sp \o <<"1">>], [str |-> Mark_up \o <<"1">>], Undefined}}

InitRun ==
    /\ rev \in Revisions
    /\ env \in [ref : BOOLEAN, sha : BOOLEAN]
    /\ configFile \in RunConfigs \cup {Null}
    /\ repoSize \in 0..MaxRepoTags
    /\ pc = "start"
    /\ page = 0 /\ fetchedTags = <<>> /\ requests = <<>> /\ runTag = Unset
    /\ createRefs = <<>> /\ refCreated = {} /\ failures = <<>>
    /\ outputs = <<>> /\ faults = {}
    /\ IdleParse /\ IdleFormat /\ IdleCompare /\ IdleResolve

\* core.setFailed(message), after which the run ends
setFailed(message) ==
    /\ failures' = Append(failures, message)
    /\ pc' = "done"

MissingRef == ~env.ref

\* mutant: a missing GITHUB_SHA goes unnoticed
MissingSha_never == FALSE

MissingSha == ~env.sha

\* mutant: the tag is put out before createRef has answered
tagCommit_outputFirst(GITHUB_SHA, newTag_) ==
    /\ createRefs' = Append(createRefs, [ref |-> RefsTags \o newTag_, sha |-> GITHUB_SHA])
    /\ runTag' = [str |-> newTag_]
    /\ pc' = "tagging"
    /\ outputs' = Append(outputs, [str |-> newTag_])
    /\ UNCHANGED failures

\* tagCommit: the createRef request is made
tagCommit(GITHUB_SHA, newTag_) ==
    /\ createRefs' = Append(createRefs, [ref |-> RefsTags \o newTag_, sha |-> GITHUB_SHA])
    /\ runTag' = [str |-> newTag_]
    /\ pc' = "tagging"
    /\ UNCHANGED <<failures, outputs>>

\* tagCommit of lines 176-184: githib is not defined, the ReferenceError is
\* thrown while the argument of createRef is built
tagCommit_old(GITHUB_SHA, t) ==
    /\ setFailed("ReferenceError")
    /\ UNCHANGED <<createRefs, runTag, outputs>>

\* action() from the result of getRelevantTags to the call of tagCommit;
\* an error thrown on the way is caught by run()
actionAfterTags(tags) ==
    IF IsThrown(tags)
    THEN setFailed(tags.thrown) /\ UNCHANGED <<createRefs, runTag, outputs>>
    ELSE LET latestTag_ == RevGetLatestTag(rev, tags.arr, configFile.year,
                                           configFile.update)
             newTag_    == RevGetNewTag(rev, latestTag_)
         IN  IF rev = "old" THEN tagCommit_old("GITHUB_SHA", newTag_)
             ELSE tagCommit("GITHUB_SHA", newTag_)

\* getRelevantTags after await getAllTags()
relevantAfterListing(tagData) ==
    LET upd == RevParseUpdate(rev, configFile.update.str) IN
    IF rev = "up" THEN [arr |-> getRelevantTagsOf(upd, configFile.year, tagData)]
    ELSE IF rev = "sp" THEN [arr |-> getRelevantTagsOf_sp(upd, configFile.year, tagData)]
    ELSE getRelevantTagsOf_old(upd, configFile.year, tagData)

\* action() up to its first await
action ==
    /\ pc = "start"
    /\ IF MissingRef
       THEN /\ setFailed("Missing GITHUB_REF.")
            /\ UNCHANGED <<page, requests, runTag, createRefs, outputs>>
       ELSE IF MissingSha
       THEN /\ setFailed("Missing GITHUB_SHA.")
            /\ UNCHANGED <<page, requests, runTag, createRefs, outputs>>
       ELSE IF configFile = Null
       THEN /\ outputs' = Append(outputs, Undefined)
            /\ pc' = "done"
            /\ UNCHANGED <<page, requests, runTag, createRefs, failures>>
       ELSE IF configFile.update = Undefined
       THEN /\ actionAfterTags(Throw("TypeError"))
            /\ UNCHANGED <<page, requests>>
       ELSE IF RevParseUpdate(rev, configFile.update.str) = Null
       THEN /\ actionAfterTags([arr |-> <<>>])
            /\ UNCHANGED <<page, requests>>
       ELSE /\ page' = 1
            /\ requests' = Append(requests, [per_page |-> PageSize, page |-> 1])
            /\ pc' = "listing"
            /\ UNCHANGED <<runTag, createRefs, failures, outputs>>
    /\ UNCHANGED <<rev, env, configFile, repoSize, fetchedTags, refCreated, faults>>
    /\ UNCHANGED <<parseVars, formatVars, compareVars, resolveVars>>

\* mutant: the listing ends at the first empty page
lastPage_empty(data) == Len(data) = 0

\* the page is the last one
lastPage(data) == Len(data) < PageSize

\* getAllTags: the listTags request for page resolves with its data
getAllTags ==
    /\ pc = "listing"
    /\ LET data == ListTagsData(repoSize, PageSize, page) IN
       IF lastPage(data)
       THEN /\ fetchedTags' = fetchedTags \o data
            /\ actionAfterTags(relevantAfterListing(fetchedTags \o data))
            /\ UNCHANGED <<page, requests>>
       ELSE /\ fetchedTags' = fetchedTags \o data
            /\ page' = page + 1
            /\ requests' = Append(requests, [per_page |-> PageSize, page |-> page + 1])
            /\ UNCHANGED <<pc, runTag, createRefs, failures, outputs>>
    /\ UNCHANGED <<rev, env, configFile, repoSize, refCreated, faults>>
    /\ UNCHANGED <<parseVars, formatVars, compareVars, resolveVars>>

\* the listTags request rejects: the error leaves getAllTags,
\* getRelevantTags and action, and run() catches it
listTagsRejects ==
    /\ pc = "listing"
    /\ faults' = faults \cup {"listTags"}
    /\ setFailed("listTags failed")
    /\ UNCHANGED <<rev, env, configFile, repoSize, page, fetchedTags, requests,
                   runTag, createRefs, refCreated, outputs>>
    /\ UNCHANGED <<parseVars, formatVars, compareVars, resolveVars>>

\* action() after await tagCommit: the tag is put out
actionAfterTagCommit ==
    /\ pc = "tagging"
    /\ refCreated' = refCreated \cup {createRefs[Len(createRefs)].ref}
    /\ outputs' = Append(outputs, runTag)
    /\ pc' = "done"
    /\ UNCHANGED <<rev, env, configFile, repoSize, page, fetchedTags, requests,
                   runTag, createRefs, failures, faults>>
    /\ UNCHANGED <<parseVars, formatVars, compareVars, resolveVars>>

\* the createRef request rejects: run() catches the error
createRefRejects ==
    /\ pc = "tagging"
    /\ faults' = faults \cup {"createRef"}
    /\ setFailed("createRef failed")
    /\ UNCHANGED <<rev, env, configFile, repoSize, page, fetchedTags, requests,
                   runTag, createRefs, refCreated, outputs>>
    /\ UNCHANGED <<parseVars, formatVars, compareVars, resolveVars>>

NextRun ==
    \/ action
    \/ getAllTags
    \/ listTagsRejects
    \/ actionAfterTagCommit
    \/ createRefRejects

SpecRun == InitRun /\ [][NextRun]_vars

-----------------------------------------------------------------------------
(* Properties *)

IsNat(x) == ~x.nan /\ x.v >= 0

\* the invariant of the data model: year in [2000, 3000], update major and
\* minor and counter integers >= 0
ValidVersion(r, t) ==
    /\ ~t.year.nan /\ t.year.v >= 2000 /\ t.year.v <= 3000
    /\ IsNat(UpdateOf(r, t).maj) /\ IsNat(UpdateOf(r, t).min)
    /\ IsNat(t.count)

\* v<year>.<marker><major>[.<minor> when minor != 0].<counter>
GrammarText(r, year, upd, count) ==
    Prefix_v \o NumberToString(year) \o <<Dot>> \o Marker(r) \o NumberToString(upd.maj)
        \o (IF upd.min = Num(0) THEN <<>> ELSE <<Dot>> \o NumberToString(upd.min))
        \o <<Dot>> \o NumberToString(count)

\* C4: the tag rendered for a version {year, update {major, minor}, counter}
\* is v<year>.<marker><major>.<counter> when minor = 0 and
\* v<year>.<marker><major>.<minor>.<counter> otherwise.
C4_FormatterGrammar ==
    newTag # Unset =>
        newTag.str = GrammarText(rev, latestTag.year, UpdateOf(rev, latestTag),
                                 Plus(latestTag.count, Num(1)))

\* C5: when parseTag accepts a tag text with result v, parseTag accepts
\* formatTag(v) too and returns a value equal to v in all four fields.
C5_RoundTrip ==
    reparsed # Unset => (reparsed # Null /\ reparsed = parsed)

\* C6: every value parseTag returns satisfies the invariant of the data
\* model: a tag text with a non-numeric or out-of-range segment is rejected.
C6_ParserValidity ==
    (parsed # Unset /\ parsed # Null) => ValidVersion(rev, parsed)

Sign(x) == IF x.nan THEN 2 ELSE IF x.v < 0 THEN -1 ELSE IF x.v > 0 THEN 1 ELSE 0

LexLess(a, b) ==
    \/ a.year.v < b.year.v
    \/ /\ a.year.v = b.year.v
       /\ \/ a.up.maj.v < b.up.maj.v
          \/ /\ a.up.maj.v = b.up.maj.v
             /\ \/ a.up.min.v < b.up.min.v
                \/ /\ a.up.min.v = b.up.min.v
                   /\ a.count.v < b.count.v

\* C7: compareTags orders versions lexicographically by year, update major,
\* update minor and counter; it is antisymmetric, transitive, and 0 exactly
\* on versions equal in all four fields.
C7_ComparatorOrder ==
    cmpAB # Unset =>
        /\ (Sign(cmpAB) = -1) <=> LexLess(cmpA, cmpB)
        /\ (Sign(cmpAB) = 1) <=> LexLess(cmpB, cmpA)
        /\ Sign(cmpAB) = 0 - Sign(cmpBA)
        /\ (Sign(cmpAB) = -1 /\ Sign(cmpBC) = -1) => Sign(cmpAC) = -1
        /\ (Sign(cmpAB) = 0) <=> (cmpA = cmpB)

\* a chain a < b < c whose first step the minor number decides
C7_Witness ==
    /\ cmpAB # Unset /\ Sign(cmpAB) = -1 /\ Sign(cmpBC) = -1 /\ Sign(cmpAC) = -1
    /\ cmpA.year = cmpB.year /\ cmpA.up.maj = cmpB.up.maj
    /\ cmpA.up.min # cmpB.up.min /\ cmpA.count.v > cmpB.count.v

-----------------------------------------------------------------------------
(* The tag grammar, read strictly:                                         *)
(*   v<year:int>.<marker><major:int>[.<minor:int>].<counter:int>           *)

IsDigits(s) == Len(s) > 0 /\ \A i \in 1..Len(s) : DigitValue(s[i]) < 10

RECURSIVE DecimalValue(_)
DecimalValue(s) ==
    IF Len(s) = 0 THEN 0
    ELSE 10 * DecimalValue(SubSeq(s, 1, Len(s) - 1)) + DigitValue(s[Len(s)])

GrammarUpdate(r, text) ==
    IF ~StartsWith(text, Marker(r)) THEN Null
    ELSE LET parts == split(SubSeq(text, 3, Len(text)), Dot) IN
    IF Len(parts) > 2 \/ \E i \in 1..Len(parts) : ~IsDigits(parts[i]) THEN Null
    ELSE [maj |-> Num(DecimalValue(parts[1])),
          min |-> IF Len(parts) = 2 THEN Num(DecimalValue(parts[2])) ELSE Num(0)]

GrammarTag(r, text) ==
    LET parts == split(text, Dot) IN
    IF Len(parts) # 3 /\ Len(parts) # 4 THEN Null
    ELSE IF ~StartsWith(parts[1], Prefix_v) \/ ~IsDigits(Tail(parts[1])) THEN Null
    ELSE IF ~IsDigits(parts[Len(parts)]) THEN Null
    ELSE LET year == DecimalValue(Tail(parts[1]))
             upd  == GrammarUpdate(r, IF Len(parts) = 3 THEN parts[2]
                                      ELSE parts[2] \o <<Dot>> \o parts[3])
         IN  IF year < 2000 \/ year > 3000 \/ upd = Null THEN Null
             ELSE [year |-> Num(year), upd |-> upd,
                   count |-> Num(DecimalValue(parts[Len(parts)]))]

ValidUpdateText(r, u) == u # Undefined /\ GrammarUpdate(r, u.str) # Null

\* the counters of the tags of names that the grammar accepts and that
\* belong to the release line of cfg
LineCounters(r, names, cfg) ==
    {GrammarTag(r, names[i]).count.v : i \in
        {j \in DOMAIN names :
            /\ GrammarTag(r, names[j]) # Null
            /\ GrammarTag(r, names[j]).year = cfg.year
            /\ GrammarTag(r, names[j]).upd = GrammarUpdate(r, cfg.update.str)}}

SetMax(S) == CHOOSE x \in S : \A y \in S : y <= x

\* C1: when the list holds a tag that the grammar accepts and that belongs
\* to the configured release line, the produced tag has the year and update
\* of the line and the counter max(counter in the line) + 1.
C1_MonotonicIncrement ==
    (/\ rev = "up" /\ resolved # Unset
     /\ ValidUpdateText(rev, config.update)
     /\ LineCounters(rev, tagNames, config) # {})
    => /\ ~IsThrown(resolved)
       /\ GrammarTag(rev, resolved.str) # Null
       /\ GrammarTag(rev, resolved.str).year = config.year
       /\ GrammarTag(rev, resolved.str).upd = GrammarUpdate(rev, config.update.str)
       /\ GrammarTag(rev, resolved.str).count.v
              = SetMax(LineCounters(rev, tagNames, config)) + 1

\* the dot-separated segments of a tag text between the first and the last
MiddleSegments(text) ==
    LET parts == split(text, Dot) IN
    IF Len(parts) = 3 THEN parts[2] ELSE parts[2] \o <<Dot>> \o parts[3]

\* C2: when no tag of the list that the grammar accepts belongs to the
\* configured release line, getLatestTag returns the sentinel {year, parsed
\* update, counter -1} and the produced tag has the configured year, the
\* update of the configuration and the counter 0.
C2_Bootstrap ==
    (/\ rev \in {"sp", "up"}
     /\ ValidUpdateText(rev, config.update)
     /\ LineCounters(rev, tagNames, config) = {})
    => /\ latest # Unset =>
            latest = Version(rev, config.year,
                             GrammarUpdate(rev, config.update.str), Num(-1))
       /\ resolved # Unset =>
            /\ ~IsThrown(resolved)
            /\ Len(split(resolved.str, Dot)) \in {3, 4}
            /\ split(resolved.str, Dot)[1] = Prefix_v \o NumberToString(config.year)
            /\ RevParseUpdate(rev, MiddleSegments(resolved.str))
                   = GrammarUpdate(rev, config.update.str)
            /\ split(resolved.str, Dot)[Len(split(resolved.str, Dot))] = <<"0">>

\* names without the entries parseTag rejects
AcceptedOnly(r, tagData) ==
    SelectSeq(tagData,
              LAMBDA e : (IF r = "old" THEN parseTag_old(e)
                          ELSE RevParseTag(r, e.name)) # Null)

\* C3: resolving a list gives the outcome of resolving the list without the
\* entries parseTag rejects, and a rejected entry never makes it fail.
C3_MalformedTagTolerance ==
    resolved # Unset =>
        /\ resolved = Resolve(rev, config, AcceptedOnly(rev, TagData(tagNames)))
        /\ (IsThrown(resolved) => config.update = Undefined)

-----------------------------------------------------------------------------
(* Properties of the run *)

IsTagOutput(o) == o # Undefined

PreconditionFails == ~env.ref \/ ~env.sha \/ configFile = Null

\* C8 as stated: a run in which GITHUB_REF or GITHUB_SHA is missing or
\* getConfig returns null ends with exactly one core.setFailed, without a
\* listTags or createRef call and without a tag put out.
C8_FatalPreconditions ==
    (pc = "done" /\ PreconditionFails) =>
        /\ Len(failures) = 1
        /\ requests = <<>> /\ createRefs = <<>>
        /\ \A i \in DOMAIN outputs : ~IsTagOutput(outputs[i])

\* C8 as amended: a missing GITHUB_REF or GITHUB_SHA ends the run with
\* exactly one core.setFailed and no output; a null configuration ends it
\* without any core.setFailed, the output 'tag' set to undefined; in both
\* cases no listTags or createRef call is made and no tag is put out.
C8_FatalPreconditionsAmended ==
    /\ (pc = "done" /\ (~env.ref \/ ~env.sha)) =>
            /\ Len(failures) = 1
            /\ requests = <<>> /\ createRefs = <<>> /\ outputs = <<>>
    /\ (pc = "done" /\ env.ref /\ env.sha /\ configFile = Null) =>
            /\ failures = <<>>
            /\ requests = <<>> /\ createRefs = <<>> /\ outputs = <<Undefined>>

\* a run ended by the configuration that getConfig could not read
C8_Witness ==
    /\ pc = "done" /\ env.ref /\ env.sha /\ configFile = Null
    /\ failures = <<>> /\ outputs = <<Undefined>>

ListingSucceeded ==
    requests # <<>> /\ pc \in {"tagging", "done"} /\ "listTags" \notin faults

C9_Pages ==
    /\ \A i \in DOMAIN requests : requests[i] = [per_page |-> PageSize, page |-> i]
    /\ \A i \in 1..(Len(requests) - 1) :
            Len(ListTagsData(repoSize, PageSize, i)) = PageSize
    /\ Len(requests) <= (repoSize \div PageSize) + 1
    /\ pc = "listing" =>
            fetchedTags = [k \in 1..((page - 1) * PageSize) |-> RepoEntry(k)]
    /\ ListingSucceeded =>
            /\ Len(requests) = (repoSize \div PageSize) + 1
            /\ fetchedTags = Repo(repoSize)

\* C9: getAllTags requests the pages 1, 2, 3, ... with the page size 100 and
\* none after the first page shorter than 100; a listing of N tags that
\* succeeds ends after floor(N/100) + 1 requests with all N tags, in order,
\* each once.  The listing ends: an answer of listTags ends it or makes the
\* next request, and no more than floor(N/100) + 1 requests are made.
C9_Pagination ==
    /\ []C9_Pages
    /\ [][pc = "listing" =>
            (pc' # "listing" \/ Len(requests') = Len(requests) + 1)]_vars

\* a listing of more than two full pages has succeeded
C9_Witness ==
    /\ ListingSucceeded /\ Len(requests) = 3 /\ repoSize > 2 * PageSize
    /\ fetchedTags = Repo(repoSize)

\* C10: createRef is called at most once; the output 'tag' is set to a tag
\* only after createRef has created refs/tags/<that tag>; when listTags or
\* createRef fails the run is marked failed and no output is set.
C10_OutputOrdering ==
    /\ Len(createRefs) <= 1
    /\ \A i \in DOMAIN outputs :
            IsTagOutput(outputs[i]) => (RefsTags \o outputs[i].str) \in refCreated
    /\ faults # {} => (failures # <<>> /\ outputs = <<>> /\ pc = "done")

\* the tag was put out after its ref was created
C10_Witness ==
    /\ rev = "up" /\ pc = "done" /\ Len(createRefs) = 1
    /\ Len(outputs) = 1 /\ IsTagOutput(outputs[1])
    /\ createRefs[1].ref = RefsTags \o outputs[1].str
    /\ repoSize > PageSize

=============================================================================
